---- MODULE Spec2Model ----
\* The splitters and confusion-matrix metrics of 07_Machine_Learning.ipynb:
\* split_data, train_test_split, accuracy, precision, recall, f1_score.
\* Python semantics are modelled as the interpreter executes them: lists are
\* objects in a heap (so that aliasing is visible), slices and indexing
\* follow the sequence protocol, "/" on ints and all float arithmetic are
\* IEEE-754 binary64 with round-to-nearest-even, and exceptions are results.
EXTENDS Integers, Sequences, FiniteSets, TLC

VARIABLES heap, call, ret

vars == <<heap, call, ret>>

\* ---------------------------------------------------------------------
\* Bounds of the model
\* ---------------------------------------------------------------------
\* longest list that is enumerated with all its shuffle outcomes
MaxLen == 3
\* list elements are drawn from 0..MaxVal
MaxVal == 1
\* confusion-matrix counts are drawn from 0..MaxCount
MaxCount == 4

\* ---------------------------------------------------------------------
\* Natural numbers of arbitrary size, as little-endian sequences of limbs
\* in base LimbBase, without leading (most significant) zero limbs.
\* They carry the 53-bit significands of Python's floats (IEEE-754
\* binary64) and the exact intermediate results the hardware rounds.
\* ---------------------------------------------------------------------
LimbBits == 15
LimbBase == 32768
MantBits == 53

RECURSIVE Pow2(_)
Pow2(k) == IF k = 0 THEN 1 ELSE 2 * Pow2(k - 1)

Max(a, b) == IF a >= b THEN a ELSE b
Min(a, b) == IF a <= b THEN a ELSE b
Abs(a) == IF a < 0 THEN -a ELSE a

RECURSIVE BigNorm(_)
BigNorm(a) ==
    IF a = <<>> THEN <<>>
    ELSE IF a[Len(a)] = 0 THEN BigNorm(SubSeq(a, 1, Len(a) - 1))
    ELSE a

RECURSIVE BigFromInt(_)
BigFromInt(n) ==
    IF n = 0 THEN <<>> ELSE <<n % LimbBase>> \o BigFromInt(n \div LimbBase)

RECURSIVE BigToInt(_)
BigToInt(a) ==
    IF a = <<>> THEN 0 ELSE Head(a) + LimbBase * BigToInt(Tail(a))

RECURSIVE BigCmpFrom(_, _, _)
BigCmpFrom(a, b, i) ==
    IF i = 0 THEN 0
    ELSE IF a[i] < b[i] THEN -1
    ELSE IF a[i] > b[i] THEN 1
    ELSE BigCmpFrom(a, b, i - 1)

BigCmp(a, b) ==
    IF Len(a) < Len(b) THEN -1
    ELSE IF Len(a) > Len(b) THEN 1
    ELSE BigCmpFrom(a, b, Len(a))

RECURSIVE BigAddC(_, _, _)
BigAddC(a, b, c) ==
    IF a = <<>> /\ b = <<>> THEN (IF c = 0 THEN <<>> ELSE <<c>>)
    ELSE LET x == IF a = <<>> THEN 0 ELSE Head(a)
             y == IF b = <<>> THEN 0 ELSE Head(b)
             s == x + y + c
         IN  <<s % LimbBase>> \o
             BigAddC(IF a = <<>> THEN <<>> ELSE Tail(a),
                     IF b = <<>> THEN <<>> ELSE Tail(b), s \div LimbBase)

BigAdd(a, b) == BigAddC(a, b, 0)

RECURSIVE BigSubC(_, _, _)
BigSubC(a, b, c) ==
    IF a = <<>> THEN <<>>
    ELSE LET y == IF b = <<>> THEN 0 ELSE Head(b)
             d == Head(a) - y - c
         IN  <<d % LimbBase>> \o
             BigSubC(Tail(a), IF b = <<>> THEN <<>> ELSE Tail(b),
                     IF d < 0 THEN 1 ELSE 0)

\* a - b, for a >= b
BigSub(a, b) == BigNorm(BigSubC(a, b, 0))

RECURSIVE BigMulSmallC(_, _, _)
BigMulSmallC(a, k, c) ==
    IF a = <<>> THEN (IF c = 0 THEN <<>> ELSE <<c>>)
    ELSE LET s == Head(a) * k + c
         IN  <<s % LimbBase>> \o BigMulSmallC(Tail(a), k, s \div LimbBase)

\* a * k, for 0 <= k < LimbBase
BigMulSmall(a, k) == BigNorm(BigMulSmallC(a, k, 0))

RECURSIVE BigMul(_, _)
BigMul(a, b) ==
    IF a = <<>> \/ b = <<>> THEN <<>>
    ELSE LET rest == BigMul(a, Tail(b))
         IN  BigAdd(BigMulSmall(a, Head(b)),
                    IF rest = <<>> THEN <<>> ELSE <<0>> \o rest)

BigShl(a, k) ==
    IF a = <<>> THEN <<>>
    ELSE [i \in 1..(k \div LimbBits) |-> 0] \o BigMulSmall(a, Pow2(k % LimbBits))

BigShr(a, k) ==
    LET d  == k \div LimbBits
        t  == k % LimbBits
        a1 == IF d >= Len(a) THEN <<>> ELSE SubSeq(a, d + 1, Len(a))
    IN  BigNorm([i \in 1..Len(a1) |->
                  (a1[i] \div Pow2(t)) +
                  (IF i < Len(a1) THEN (a1[i + 1] % Pow2(t)) * Pow2(LimbBits - t)
                   ELSE 0)])

RECURSIVE SmallBitLen(_)
SmallBitLen(n) == IF n = 0 THEN 0 ELSE 1 + SmallBitLen(n \div 2)

BigBitLen(a) ==
    IF a = <<>> THEN 0 ELSE LimbBits * (Len(a) - 1) + SmallBitLen(a[Len(a)])

\* bit i of a, bit 0 the least significant
BigBit(a, i) ==
    IF i \div LimbBits >= Len(a) THEN 0
    ELSE (a[(i \div LimbBits) + 1] \div Pow2(i % LimbBits)) % 2

\* 2 * a + bit
BigDoublePlus(a, bit) ==
    LET d == BigMulSmall(a, 2)
    IN  IF bit = 0 THEN d
        ELSE IF d = <<>> THEN <<1>>
        ELSE [d EXCEPT ![1] = @ + 1]

\* One step of schoolbook long division in base LimbBase: bring down limb
\* j of a, estimate the quotient limb from the two leading limbs of the
\* partial remainder (b has its top limb >= LimbBase / 2, so the estimate
\* is at most 2 too large) and correct it.
RECURSIVE BigDivStep(_, _, _, _)
BigDivStep(a, b, j, st) ==
    IF j = 0 THEN st
    ELSE LET n    == Len(b)
             rc   == BigNorm(<<a[j]>> \o st.r)
             u0   == IF Len(rc) > n THEN rc[n + 1] ELSE 0
             u1   == IF Len(rc) >= n THEN rc[n] ELSE 0
             qhat == Min((u0 * LimbBase + u1) \div b[n], LimbBase - 1)
             fits(d) == d >= 0 /\ BigCmp(BigMulSmall(b, d), rc) <= 0
             d    == IF fits(qhat) THEN qhat
                     ELSE IF fits(qhat - 1) THEN qhat - 1
                     ELSE qhat - 2
         IN  BigDivStep(a, b, j - 1,
                        [q |-> <<d>> \o st.q, r |-> BigSub(rc, BigMulSmall(b, d))])

\* quotient and remainder of a by b, b > 0
BigDivMod(a, b) ==
    LET s  == LimbBits - SmallBitLen(b[Len(b)])
        a1 == BigShl(a, s)
        st == BigDivStep(a1, BigShl(b, s), Len(a1), [q |-> <<>>, r |-> <<>>])
    IN  [q |-> BigNorm(st.q), r |-> BigShr(st.r, s)]

\* ---------------------------------------------------------------------
\* Python floats: [neg, m, e] is the double (-1)^neg * m * 2^e with
\* 2^52 <= m < 2^53, or zero (m = <<>>, e = 0).  Exponent range
\* (overflow, subnormals) is not modelled: the counts and list lengths of
\* the model stay far inside it.
\* ---------------------------------------------------------------------
FZero == [neg |-> FALSE, m |-> <<>>, e |-> 0]

\* the double nearest to (-1)^neg * n * 2^e, ties to even
Round53(neg, n, e) ==
    LET L == BigBitLen(n)
    IN  IF L = 0 THEN FZero
        ELSE IF L <= MantBits
        THEN [neg |-> neg, m |-> BigShl(n, MantBits - L), e |-> e - (MantBits - L)]
        ELSE LET s      == L - MantBits
                 q      == BigShr(n, s)
                 rbit   == BigBit(n, s - 1)
                 sticky == BigShl(BigShr(n, s - 1), s - 1) # n
                 up     == rbit = 1 /\ (sticky \/ BigBit(q, 0) = 1)
                 q2     == IF up THEN BigAdd(q, <<1>>) ELSE q
             IN  IF BigBitLen(q2) > MantBits
                 THEN [neg |-> neg, m |-> BigShr(q2, 1), e |-> e + s + 1]
                 ELSE [neg |-> neg, m |-> q2, e |-> e + s]

\* the double nearest to (-1)^neg * (a / b) * 2^e, for a >= 0, b > 0
DivRound(neg, a, b, e) ==
    LET k  == Max(0, MantBits + 2 + BigBitLen(b) - BigBitLen(a))
        qr == BigDivMod(BigShl(a, k), b)
    IN  Round53(neg, BigDoublePlus(qr.q, IF qr.r = <<>> THEN 0 ELSE 1), e - k - 1)

IntToFloat(i) == Round53(i < 0, BigFromInt(Abs(i)), 0)

\* int / int, for b # 0
IntTrueDiv(a, b) ==
    DivRound((a < 0) # (b < 0) /\ a # 0, BigFromInt(Abs(a)), BigFromInt(Abs(b)), 0)

FMul(x, y) == Round53(x.neg # y.neg, BigMul(x.m, y.m), x.e + y.e)

\* x / y, for y # 0.0
FDiv(x, y) ==
    IF x.m = <<>> THEN FZero ELSE DivRound(x.neg # y.neg, x.m, y.m, x.e - y.e)

FNeg(x) == IF x.m = <<>> THEN x ELSE [x EXCEPT !.neg = ~@]

FAdd(x, y) ==
    IF x.m = <<>> THEN y
    ELSE IF y.m = <<>> THEN x
    ELSE LET emin == Min(x.e, y.e)
             a    == BigShl(x.m, x.e - emin)
             b    == BigShl(y.m, y.e - emin)
             c    == BigCmp(a, b)
         IN  IF x.neg = y.neg THEN Round53(x.neg, BigAdd(a, b), emin)
             ELSE IF c = 0 THEN FZero
             ELSE IF c > 0 THEN Round53(x.neg, BigSub(a, b), emin)
             ELSE Round53(y.neg, BigSub(b, a), emin)

FSub(x, y) == FAdd(x, FNeg(y))

FIsZero(x) == x.m = <<>>

\* x < y
FLess(x, y) == LET d == FSub(x, y) IN d.m # <<>> /\ d.neg

FLessEq(x, y) == ~FLess(y, x)

\* int(x): truncation toward zero
FloatToInt(x) ==
    LET a == IF x.e >= 0 THEN BigShl(x.m, x.e) ELSE BigShr(x.m, -x.e)
        n == BigToInt(a)
    IN  IF x.neg THEN -n ELSE n

\* ---------------------------------------------------------------------
\* Python lists
\* ---------------------------------------------------------------------
Range(s) == {s[i] : i \in DOMAIN s}

\* the clamped start/stop of a slice bound: negative bounds count from the end
\* (the slip of treating a negative bound as 0 instead of counting from the end)
SliceIndexNoWrap(s, i) == Min(Max(i, 0), Len(s))
SliceIndex(s, i) ==
    IF i < 0 THEN Max(i + Len(s), 0) ELSE Min(i, Len(s))

\* s[:cut]
SliceTo(s, cut) == SubSeq(s, 1, SliceIndex(s, cut))

\* s[cut:]
\* (the slip data[cut + 1:], which drops the element at the cut)
SliceFromNext(s, cut) == SubSeq(s, SliceIndex(s, cut) + 2, Len(s))
SliceFrom(s, cut) == SubSeq(s, SliceIndex(s, cut) + 1, Len(s))

\* s[i] is defined for -len(s) <= i < len(s) and raises IndexError otherwise
IndexOK(s, i) == -Len(s) <= i /\ i < Len(s)

GetItem(s, i) == IF i < 0 THEN s[i + Len(s) + 1] ELSE s[i + 1]

\* [s[i] for i in idxs]: the first index out of range raises IndexError
Gather(s, idxs) ==
    IF \E k \in DOMAIN idxs : ~IndexOK(s, idxs[k])
    THEN [err |-> "IndexError"]
    ELSE [err |-> "none", val |-> [k \in DOMAIN idxs |-> GetItem(s, idxs[k])]]

\* the orders random.shuffle can leave a list of n elements in: position k
\* of the shuffled list holds the element that was at position perm[k]
Orders(n) ==
    {f \in [1..n -> 1..n] : \A i, j \in 1..n : f[i] = f[j] => i = j}

\* random.shuffle(x): the list object is reordered in place
Shuffle(s, perm) == [k \in DOMAIN s |-> s[perm[k]]]

\* ---------------------------------------------------------------------
\* split_data
\* ---------------------------------------------------------------------
\* data = data[:] binds the local name to a new list object with the same
\* elements; the caller's object stays in the heap under its own name
\* (without the copy the local name is the caller's own object)
AliasData(h, ref) == [heap |-> h, ref |-> ref]
CopyData(h, ref) == [heap |-> h @@ ("copy" :> h[ref]), ref |-> "copy"]

\* cut = int(len(data) * prob)
\* (the slip of rounding the product up instead of truncating it)
CutRoundedUp(n, prob) ==
    LET x == FMul(IntToFloat(n), prob)
        c == FloatToInt(x)
    IN  IF FLess(IntToFloat(c), x) THEN c + 1 ELSE c
Cut(n, prob) == FloatToInt(FMul(IntToFloat(n), prob))

\* split_data(data, prob) with the shuffle leaving the order perm; the
\* result carries the heap as the call leaves it
split_data(h, ref, prob, perm) ==
    LET c   == CopyData(h, ref)
        h2  == [c.heap EXCEPT ![c.ref] = Shuffle(@, perm)]
        cut == Cut(Len(h2[c.ref]), prob)
    IN  [heap |-> h2,
         train |-> SliceTo(h2[c.ref], cut),
         test |-> SliceFrom(h2[c.ref], cut)]

\* ---------------------------------------------------------------------
\* train_test_split
\* ---------------------------------------------------------------------
\* the four list comprehensions of the return statement, in their order of
\* evaluation; the first IndexError ends the call
GatherAll(h, xs, ys, train_idxs, test_idxs) ==
    LET x_train == Gather(h[xs], train_idxs)
        x_test  == Gather(h[xs], test_idxs)
        y_train == Gather(h[ys], train_idxs)
        y_test  == Gather(h[ys], test_idxs)
    IN  IF \/ x_train.err # "none" \/ x_test.err # "none"
           \/ y_train.err # "none" \/ y_test.err # "none"
        THEN [heap |-> h, err |-> "IndexError"]
        ELSE [heap |-> h, err |-> "none",
              x_train |-> x_train.val, x_test |-> x_test.val,
              y_train |-> y_train.val, y_test |-> y_test.val]

\* (the slip of passing test_pct, not 1 - test_pct, as the train fraction)
train_test_split_swapped(h, xs, ys, test_pct, perm) ==
    LET h1 == h @@ ("idxs" :> [i \in 1..Len(h[xs]) |-> i - 1])
        sd == split_data(h1, "idxs", test_pct, perm)
    IN  GatherAll(sd.heap, xs, ys, sd.train, sd.test)

\* (the slip of ordering the labels of each side differently from its inputs)
train_test_split_unpaired(h, xs, ys, test_pct, perm) ==
    LET h1 == h @@ ("idxs" :> [i \in 1..Len(h[xs]) |-> i - 1])
        sd == split_data(h1, "idxs", FSub(IntToFloat(1), test_pct), perm)
        rev(s) == [k \in DOMAIN s |-> s[Len(s) + 1 - k]]
        g  == GatherAll(sd.heap, xs, ys, sd.train, sd.test)
    IN  IF g.err # "none" THEN g
        ELSE [g EXCEPT !.y_train = rev(@), !.y_test = rev(@)]

train_test_split(h, xs, ys, test_pct, perm) ==
    LET h1 == h @@ ("idxs" :> [i \in 1..Len(h[xs]) |-> i - 1])
        sd == split_data(h1, "idxs", FSub(IntToFloat(1), test_pct), perm)
    IN  GatherAll(sd.heap, xs, ys, sd.train, sd.test)

\* ---------------------------------------------------------------------
\* The notebook as a state machine: the caller's list objects live in
\* heap; each action is one call of one function, recorded in call with
\* its arguments and in ret with what it returned or raised.
\* ---------------------------------------------------------------------
Lists == UNION {[1..n -> 0..MaxVal] : n \in 0..MaxLen}

LabelLists == UNION {[1..n -> BOOLEAN] : n \in 0..MaxLen}

\* [n for n in range(k)]
RangeList(k) == [i \in 1..k |-> i - 1]

\* the lists of the notebook's own test cells
TestCellData == RangeList(1000)
TestCellXs == RangeList(1000)
TestCellYs == [i \in 1..1000 |-> 2 * (i - 1)]

\* the fractions passed as prob and test_pct, as the floats that the
\* literals and quotients denote
Fractions ==
    {IntTrueDiv(f[1], f[2]) :
        f \in {<<0, 1>>, <<1, 4>>, <<1, 3>>, <<1, 2>>, <<2, 3>>, <<3, 4>>, <<1, 1>>}}

\* The test cells call with one fraction each: 0.75 for split_data and
\* 0.25 for train_test_split.
FractionsFor(s, cell) == IF Len(s) > MaxLen THEN {cell} ELSE Fractions

\* Every outcome of the shuffle for the enumerated lists; three of the
\* outcomes (kept order, reversed order, a stride) for the 1000-element
\* lists of the test cells.
ShuffleOutcomes(n) ==
    IF n <= MaxLen THEN Orders(n)
    ELSE {[k \in 1..n |-> k], [k \in 1..n |-> n + 1 - k],
          [k \in 1..n |-> ((7 * k) % n) + 1]}

NoCall == [name |-> "none"]
NoRet == [err |-> "none"]

Init ==
    /\ heap \in
         {[data |-> d, xs |-> <<>>, ys |-> <<>>] : d \in Lists \cup {TestCellData}}
         \cup {[data |-> <<>>, xs |-> RangeList(n), ys |-> y] :
                 n \in 0..MaxLen, y \in LabelLists}
         \cup {[data |-> <<>>, xs |-> TestCellXs, ys |-> TestCellYs]}
    /\ call = NoCall
    /\ ret = NoRet

\* the caller's objects after a call: the call's own lists are garbage
Caller(h) == [r \in DOMAIN heap |-> h[r]]

\* train, test = split_data(data, prob)
CallSplitData ==
    /\ call = NoCall
    /\ \E prob \in FractionsFor(heap.data, IntTrueDiv(3, 4)) :
         \E perm \in ShuffleOutcomes(Len(heap.data)) :
           LET r == split_data(heap, "data", prob, perm)
           IN  /\ heap' = Caller(r.heap)
               /\ call' = [name |-> "split_data", data |-> heap.data, prob |-> prob]
               /\ ret' = [err |-> "none", train |-> r.train, test |-> r.test]

\* x_train, x_test, y_train, y_test = train_test_split(xs, ys, test_pct)
CallTrainTestSplit ==
    /\ call = NoCall
    /\ \E test_pct \in FractionsFor(heap.xs, IntTrueDiv(1, 4)) :
         \E perm \in ShuffleOutcomes(Len(heap.xs)) :
           LET r == train_test_split(heap, "xs", "ys", test_pct, perm)
           IN  /\ heap' = Caller(r.heap)
               /\ call' = [name |-> "train_test_split", xs |-> heap.xs,
                            ys |-> heap.ys, test_pct |-> test_pct]
               /\ ret' = [f \in DOMAIN r \ {"heap"} |-> r[f]]

\* Each behaviour is one call from a fresh caller state: the functions
\* keep no state of their own between calls.
Next == CallSplitData \/ CallTrainTestSplit

Spec == Init /\ [][Next]_vars

\* ---------------------------------------------------------------------
\* split_data with any float as prob: the code does not restrict it
\* ---------------------------------------------------------------------
\* fractions below 0 and above 1
FractionsOutOfRange ==
    {IntTrueDiv(f[1], f[2]) :
        f \in {<<-3, 2>>, <<-1, 1>>, <<-1, 2>>, <<-1, 4>>,
               <<5, 4>>, <<3, 2>>, <<2, 1>>}}

InitAnyProb ==
    /\ heap \in {[data |-> d, xs |-> <<>>, ys |-> <<>>] : d \in Lists}
    /\ call = NoCall
    /\ ret = NoRet

\* train, test = split_data(data, prob), prob in or out of [0, 1]
CallSplitDataAnyProb ==
    /\ call = NoCall
    /\ \E prob \in Fractions \cup FractionsOutOfRange :
         \E perm \in ShuffleOutcomes(Len(heap.data)) :
           LET r == split_data(heap, "data", prob, perm)
           IN  /\ heap' = Caller(r.heap)
               /\ call' = [name |-> "split_data", data |-> heap.data, prob |-> prob]
               /\ ret' = [err |-> "none", train |-> r.train, test |-> r.test]

NextAnyProb == CallSplitDataAnyProb

SpecAnyProb == InitAnyProb /\ [][NextAnyProb]_vars

\* ---------------------------------------------------------------------
\* Confusion-matrix metrics
\* ---------------------------------------------------------------------
\* a / b on ints: ZeroDivisionError for b = 0, else the nearest float
TrueDiv(a, b) ==
    IF b = 0 THEN [err |-> "ZeroDivisionError"]
    ELSE [err |-> "none", val |-> IntTrueDiv(a, b)]

\* x / y on floats: ZeroDivisionError for y = 0.0
FloatTrueDiv(x, y) ==
    IF FIsZero(y) THEN [err |-> "ZeroDivisionError"]
    ELSE [err |-> "none", val |-> FDiv(x, y)]

\* (the slip of counting false positives as correct)
accuracy_wrong_correct(tp, fp, fn, tn) ==
    LET correct == tp + fp
        total   == tp + fp + fn + tn
    IN  TrueDiv(correct, total)

accuracy(tp, fp, fn, tn) ==
    LET correct == tp + tn
        total   == tp + fp + fn + tn
    IN  TrueDiv(correct, total)

\* (a guarded variant that returns 0.0 instead of raising)
precision_guarded(tp, fp, fn, tn) ==
    IF tp + fp = 0 THEN [err |-> "none", val |-> FZero] ELSE TrueDiv(tp, tp + fp)

precision(tp, fp, fn, tn) == TrueDiv(tp, tp + fp)

recall(tp, fp, fn, tn) == TrueDiv(tp, tp + fn)

\* (the closed form 2tp / (2tp + fp + fn), defined also for tp = 0)
f1_score_closed_form(tp, fp, fn, tn) == TrueDiv(2 * tp, 2 * tp + fp + fn)

\* an exception raised by precision or recall ends f1_score
f1_score(tp, fp, fn, tn) ==
    LET p == precision(tp, fp, fn, tn)
        r == recall(tp, fp, fn, tn)
    IN  IF p.err # "none" THEN p
        ELSE IF r.err # "none" THEN r
        ELSE FloatTrueDiv(FMul(FMul(IntToFloat(2), p.val), r.val),
                          FAdd(p.val, r.val))

\* the confusion matrices the metrics are called on: all small ones and
\* the notebook's "Luke" example
Counts ==
    ((0..MaxCount) \X (0..MaxCount) \X (0..MaxCount) \X (0..MaxCount))
    \cup {<<70, 4930, 13930, 981070>>}

InitMetrics ==
    /\ heap = [data |-> <<>>, xs |-> <<>>, ys |-> <<>>]
    /\ call = NoCall
    /\ ret = NoRet

Called(name, c) == [name |-> name, tp |-> c[1], fp |-> c[2], fn |-> c[3], tn |-> c[4]]

CallAccuracy ==
    /\ call = NoCall
    /\ \E c \in Counts :
         /\ call' = Called("accuracy", c)
         /\ ret' = accuracy(c[1], c[2], c[3], c[4])
    /\ UNCHANGED heap

CallPrecision ==
    /\ call = NoCall
    /\ \E c \in Counts :
         /\ call' = Called("precision", c)
         /\ ret' = precision(c[1], c[2], c[3], c[4])
    /\ UNCHANGED heap

CallRecall ==
    /\ call = NoCall
    /\ \E c \in Counts :
         /\ call' = Called("recall", c)
         /\ ret' = recall(c[1], c[2], c[3], c[4])
    /\ UNCHANGED heap

CallF1Score ==
    /\ call = NoCall
    /\ \E c \in Counts :
         /\ call' = Called("f1_score", c)
         /\ ret' = f1_score(c[1], c[2], c[3], c[4])
    /\ UNCHANGED heap

NextMetrics == CallAccuracy \/ CallPrecision \/ CallRecall \/ CallF1Score

SpecMetrics == InitMetrics /\ [][NextMetrics]_vars

\* ---------------------------------------------------------------------
\* Properties
\* ---------------------------------------------------------------------
\* the multiset of the elements of a list
BagOf(s) == [v \in Range(s) |-> Cardinality({i \in DOMAIN s : s[i] = v})]

\* the list of pairs <<a[k], b[k]>> of two lists of one length
Pairs(a, b) == [k \in DOMAIN a |-> <<a[k], b[k]>>]

\* c <= x < c + 1 for the float x: c is the floor of x
IsFloorOf(c, x) ==
    FLessEq(IntToFloat(c), x) /\ FLess(x, IntToFloat(c + 1))

\* the float x >= 0 is within half a unit in the last place of a / b
\* (a >= 0, b > 0): it is the exact ratio rounded to the nearest float
IsNearestFloat(x, a, b) ==
    IF a = 0 THEN x = FZero
    ELSE LET bb   == BigFromInt(b)
             up   == Max(x.e, 0)
             down == Max(-x.e, 0)
             l    == BigShl(BigMul(x.m, bb), up)
             r    == BigShl(BigFromInt(a), down)
             diff == IF BigCmp(l, r) >= 0 THEN BigSub(l, r) ELSE BigSub(r, l)
         IN  /\ ~x.neg
             /\ BigBitLen(x.m) = MantBits
             /\ BigCmp(BigMulSmall(diff, 2), BigShl(bb, up)) <= 0

SplitDataCalled == call.name = "split_data"
PairedCalled == call.name = "train_test_split"
EqualLengths == Len(call.xs) = Len(call.ys)

\* C1: every outcome of split_data conserves its input: the multiset of
\* the elements of train + test is the multiset of the elements of data.
C1_Conservation ==
    SplitDataCalled =>
        /\ ret.err = "none"
        /\ BagOf(ret.train \o ret.test) = BagOf(call.data)

C1_Witness ==
    /\ SplitDataCalled
    /\ ret.train # <<>> /\ ret.test # <<>>
    /\ Cardinality(Range(call.data)) < Len(call.data)
    /\ ret.train \o ret.test # call.data

\* C2: whatever the shuffle does, train holds floor(len(data) * prob)
\* elements, the product being the float the code computes, and test the
\* other len(data) - floor(len(data) * prob).
C2_Lengths ==
    SplitDataCalled =>
        LET n == Len(call.data)
        IN  /\ IsFloorOf(Len(ret.train), FMul(IntToFloat(n), call.prob))
            /\ Len(ret.test) = n - Len(ret.train)

C2_Witness ==
    /\ SplitDataCalled
    /\ Len(call.data) = 1000
    /\ Len(ret.train) = 750 /\ Len(ret.test) = 250

\* C3: for lists of one length train_test_split keeps pairs together: the
\* x and y outputs of each side have one length, and the pairs
\* (x_train[k], y_train[k]) and (x_test[k], y_test[k]) are the pairs
\* (xs[i], ys[i]), each original index used exactly once.
C3_PairsKept ==
    (PairedCalled /\ EqualLengths) =>
        /\ ret.err = "none"
        /\ Len(ret.x_train) = Len(ret.y_train)
        /\ Len(ret.x_test) = Len(ret.y_test)
        /\ BagOf(Pairs(ret.x_train, ret.y_train) \o Pairs(ret.x_test, ret.y_test))
             = BagOf(Pairs(call.xs, call.ys))

C3_Witness ==
    /\ PairedCalled /\ EqualLengths
    /\ ret.err = "none"
    /\ ret.x_train # <<>> /\ ret.x_test # <<>>
    /\ ret.x_train \o ret.x_test # call.xs
    /\ Cardinality(Range(call.ys)) > 1

\* C4: train_test_split signals an error and returns no result whenever
\* len(xs) # len(ys), for ys shorter than xs and for ys longer than xs.
C4_ErrorOnLengthMismatch ==
    (PairedCalled /\ ~EqualLengths) => ret.err # "none"

\* C5: accuracy, precision and recall each end in ZeroDivisionError, with
\* no value returned, exactly when the metric's denominator is zero, and
\* return a value for every other input.
Denominator ==
    IF call.name = "accuracy" THEN call.tp + call.fp + call.fn + call.tn
    ELSE IF call.name = "precision" THEN call.tp + call.fp
    ELSE call.tp + call.fn

RatioCalled == call.name \in {"accuracy", "precision", "recall"}

C5_ErrorIffZeroDenominator ==
    RatioCalled =>
        /\ ret.err \in {"none", "ZeroDivisionError"}
        /\ ret.err = "ZeroDivisionError" <=> Denominator = 0
        /\ "val" \in DOMAIN ret <=> Denominator # 0

C5_Witness ==
    /\ call.name = "precision"
    /\ call.tp + call.fp = 0 /\ call.fn + call.tn > 0
    /\ ret.err = "ZeroDivisionError"

\* C6: where precision and recall are both defined and positive,
\* min(precision, recall) <= f1_score <= max(precision, recall).
C6_F1Between ==
    (call.name = "f1_score" /\ call.tp > 0) =>
        LET p  == precision(call.tp, call.fp, call.fn, call.tn).val
            r  == recall(call.tp, call.fp, call.fn, call.tn).val
            lo == IF FLess(p, r) THEN p ELSE r
            hi == IF FLess(p, r) THEN r ELSE p
        IN  /\ ret.err = "none"
            /\ FLessEq(lo, ret.val) /\ FLessEq(ret.val, hi)

\* C7: f1_score returns a value exactly when tp > 0 and ends in
\* ZeroDivisionError otherwise; for tp = 0 with fp > 0 and fn > 0
\* precision and recall are both 0.0 and the error is that of dividing by
\* precision + recall = 0.0.
C7_F1DefinedIffTp ==
    call.name = "f1_score" =>
        /\ ret.err = "none" <=> call.tp > 0
        /\ call.tp = 0 => ret.err = "ZeroDivisionError"
        /\ "val" \in DOMAIN ret <=> call.tp > 0
        /\ (call.tp = 0 /\ call.fp > 0 /\ call.fn > 0) =>
             /\ precision(call.tp, call.fp, call.fn, call.tn) = [err |-> "none", val |-> FZero]
             /\ recall(call.tp, call.fp, call.fn, call.tn) = [err |-> "none", val |-> FZero]

C7_Witness ==
    /\ call.name = "f1_score"
    /\ call.tp = 0 /\ call.fp > 0 /\ call.fn > 0
    /\ ret.err = "ZeroDivisionError"

\* C8: with a non-zero denominator each metric returns its closed form,
\* (tp+tn)/(tp+fp+fn+tn), tp/(tp+fp), tp/(tp+fn): the float nearest to
\* the exact ratio; on (70, 4930, 13930, 981070) these are the floats of
\* 98114/100000, 70/5000 and 70/14000.
Numerator == IF call.name = "accuracy" THEN call.tp + call.tn ELSE call.tp

IsLuke ==
    <<call.tp, call.fp, call.fn, call.tn>> = <<70, 4930, 13930, 981070>>

C8_ClosedForms ==
    (RatioCalled /\ Denominator # 0) =>
        /\ ret.err = "none"
        /\ IsNearestFloat(ret.val, Numerator, Denominator)
        /\ (IsLuke /\ call.name = "accuracy") => IsNearestFloat(ret.val, 98114, 100000)
        /\ (IsLuke /\ call.name = "precision") => IsNearestFloat(ret.val, 70, 5000)
        /\ (IsLuke /\ call.name = "recall") => IsNearestFloat(ret.val, 70, 14000)

C8_Witness ==
    /\ call.name = "accuracy" /\ IsLuke
    /\ ret.err = "none"
    /\ IsNearestFloat(ret.val, 98114, 100000)

\* C9: for lists of one length n, the train outputs hold
\* floor(n * (1 - test_pct)) elements and the test outputs the other
\* n - floor(n * (1 - test_pct)), in the code's float arithmetic; for
\* n = 1000 and test_pct = 0.25 these are 750 and 250.
C9_Proportions ==
    (PairedCalled /\ EqualLengths) =>
        LET n == Len(call.xs)
            c == Len(ret.x_train)
        IN  /\ ret.err = "none"
            /\ IsFloorOf(c, FMul(IntToFloat(n), FSub(IntToFloat(1), call.test_pct)))
            /\ Len(ret.y_train) = c
            /\ Len(ret.x_test) = n - c /\ Len(ret.y_test) = n - c
            /\ (n = 1000 /\ call.test_pct = IntTrueDiv(1, 4)) => c = 750 /\ n - c = 250

C9_Witness ==
    /\ PairedCalled /\ EqualLengths
    /\ Len(call.xs) = 1000
    /\ ret.err = "none"
    /\ Len(ret.x_train) = 750 /\ Len(ret.y_train) = 750
    /\ Len(ret.x_test) = 250 /\ Len(ret.y_test) = 250

\* C10: after a call of split_data the caller's data list, and after a
\* call of train_test_split the caller's xs and ys lists, hold the same
\* elements in the same order as when the call was made.
C10_ArgumentsUnchanged ==
    /\ SplitDataCalled => heap.data = call.data
    /\ PairedCalled => heap.xs = call.xs /\ heap.ys = call.ys

C10_Witness ==
    /\ SplitDataCalled
    /\ ret.train \o ret.test # call.data
    /\ heap.data = call.data

\* the value int(len(data) * prob) of the call made
CutOfCall == FloatToInt(FMul(IntToFloat(Len(call.data)), call.prob))

ProbAboveOne == FLess(IntToFloat(1), call.prob)
ProbBelowZero == FLess(call.prob, FZero)

\* C11 (as stated): for every prob, in [0, 1] or not, train followed by
\* test is a permutation of data; prob > 1 gives a train of len(data)
\* elements and an empty test; prob < 0 gives a cut counted from the end
\* of the list: train is all but the last -int(len(data) * prob) elements.
C11_AnyProbAsStated ==
    SplitDataCalled =>
        LET n == Len(call.data)
        IN  /\ BagOf(ret.train \o ret.test) = BagOf(call.data)
            /\ ProbAboveOne => Len(ret.train) = n /\ ret.test = <<>>
            /\ ProbBelowZero => Len(ret.train) = Max(n + CutOfCall, 0)

\* C11 (amended): as above, but for prob < 0 the cut counts from the end
\* only when int(len(data) * prob) is negative; when the product truncates
\* to 0 (-1 < len(data) * prob < 0) train is empty and test is everything.
C11_AnyProbConserves ==
    SplitDataCalled =>
        LET n == Len(call.data)
        IN  /\ ret.err = "none"
            /\ BagOf(ret.train \o ret.test) = BagOf(call.data)
            /\ Len(ret.train) + Len(ret.test) = n
            /\ ProbAboveOne => Len(ret.train) = n /\ ret.test = <<>>
            /\ ProbBelowZero =>
                 /\ CutOfCall <= 0
                 /\ CutOfCall < 0 => Len(ret.train) = Max(n + CutOfCall, 0)
                 /\ CutOfCall = 0 => ret.train = <<>> /\ Len(ret.test) = n

C11_Witness ==
    /\ SplitDataCalled
    /\ ProbBelowZero
    /\ CutOfCall < 0
    /\ ret.train # <<>> /\ ret.test # <<>>
    /\ ret.train \o ret.test # call.data
    /\ ~IsFloorOf(Len(ret.train), FMul(IntToFloat(Len(call.data)), call.prob))
====
